---- MODULE Spec2Model ----
(***************************************************************************)
(* Model of the tank-game server (src/src/server/server.js): the socket    *)
(* handlers of one connection, the three periodic drivers, and the shared  *)
(* state they touch (currentClientDatas, sockets, scoreboardList and the   *)
(* quadtree).  Every handler and every driver is one run-to-completion     *)
(* callback of the Node event loop, hence one action.  An exception that   *)
(* escapes a callback is uncaught: the callback stops where it threw and   *)
(* the process exits; uncaught names the callback, lastStep keeps what it  *)
(* had done, and the program state is gone (action Exit).                  *)
(*                                                                         *)
(* The world is one row of cells: a bounding box is an interval [x, x+w).  *)
(* Wall-clock values (lastHeartbeat, ping times) are not modelled.         *)
(***************************************************************************)
EXTENDS Integers, Sequences, FiniteSets, TLC

\* ---------------------------------------------------------------- bounds
NumSessions == 2        \* sockets that may connect during a run
MaxRegistry == 2        \* cap on the length of currentClientDatas
MaxKills == 1           \* cap on a tank's kill counter
GameWidth == 1          \* config.gameWidth, in cells
TankAmmoCapacity == 1   \* config.tankAmmoCapacity
ScoreBoardLength == 2   \* config.scoreBoardLength
ScoreTanks == 4         \* tanks drawn for the scoreboard specification
ScoreMaxKills == 2      \* kill counts drawn for the scoreboard specification
MaxNameLen == 15        \* longest name drawn for the name specification
NameChars == 3          \* characters the drawn names are written in

\* ------------------------------------------------------ program constants
NameLimit == 10         \* screenName.substring(0,10)

Sessions == 1..NumSessions
Cells == 0..(GameWidth - 1)
\* keys of the sockets object: a session id, or 0 for the key "undefined"
SocketKeys == 0..NumSessions

VARIABLES
    conn,               \* per socket: "none" (not yet connected), "open", "closed"
    screenName,         \* currentClientData.screenName: [set, text]
    player,             \* currentClientData.player
    tank,               \* currentClientData.tank (and the session's position)
    currentClientDatas, \* the registry: sequence of session ids
    sockets,            \* sockets object: key -> socket of a session (0: no entry)
    scoreboardList,     \* cached scoreboard
    quadtree,           \* entries of the quadtree, in traversal order
    acked,              \* history: the session's welcome_received handler has run
    lastStep,           \* what the last callback did (its outputs)
    uncaught,           \* "none", or the callback an exception escaped from
    sentName            \* history: the name argument of the session's last init

vars == <<conn, screenName, player, tank, currentClientDatas, sockets,
          scoreboardList, quadtree, acked, lastStep, uncaught, sentName>>

\* ------------------------------------------------------------- helpers
Min(a, b) == IF a < b THEN a ELSE b

Range(s) == {s[i] : i \in 1..Len(s)}

\* the name kept whole, whatever its length
Substring0_Whole(s, n) == s

\* JS String.prototype.substring(0, n) on a name given as a character sequence
Substring0(s, n) == SubSeq(s, 1, Min(n, Len(s)))

\* Array.prototype.splice(i, 1), i a 1-based position
Splice1(s, i) == [j \in 1..(Len(s) - 1) |-> IF j < i THEN s[j] ELSE s[j + 1]]

\* util.findIndex(array, id): first position holding id, 0 when absent (JS: -1)
FindIndex(s, id) ==
    IF \E i \in 1..Len(s) : s[i] = id
    THEN CHOOSE i \in 1..Len(s) : s[i] = id /\ \A j \in 1..(i - 1) : s[j] # id
    ELSE 0

\* the value JS calls undefined, for each shape of value
NoName == [set |-> FALSE, text |-> <<>>]
NoPlayer == [defined |-> FALSE, screenWidth |-> 0, screenHeight |-> 0, userInput |-> 0]
\* the player object a ClientData is constructed with and a client echoes back
DefaultPlayer == [defined |-> TRUE, screenWidth |-> 2, screenHeight |-> 2, userInput |-> 0]

LongName == [i \in 1..(NameLimit + 1) |-> i]

NoStep == [op |-> "none", registry |-> <<>>, advanced |-> <<>>, failedAt |-> 0,
           emitted |-> <<>>]

\* ------------------------------------------------------------ quadtree
\* Tank.forQuadtree(): the tank's bounding box with its identity
TankItem(s) == [type |-> "tank", id |-> s, x |-> tank[s].x, w |-> 2]
\* Bullet.forQuadtree(): the bullet's bounding box, owner kept for lookup
BulletItem(s, bx) == [type |-> "bullet", id |-> s, x |-> bx, w |-> 1]

SameBox(a, b) == a.x = b.x /\ a.w = b.w

\* quadtree.put(item)
Put(q, item) == Append(q, item)

\* position of the first entry the removal matches, 0 when none
FirstMatch(q, item, byId) ==
    LET hit(e) == IF byId THEN e.type = item.type /\ e.id = item.id
                  ELSE SameBox(e, item)
    IN IF \E i \in 1..Len(q) : hit(q[i])
       THEN CHOOSE i \in 1..Len(q) : hit(q[i]) /\ \A j \in 1..(i - 1) : ~hit(q[j])
       ELSE 0

\* quadtree.remove(item [, 'id']): removes the first matching entry; with no
\* key the entries are compared by bounding box; absent entry: no-op
Remove(q, item, byId) ==
    LET i == FirstMatch(q, item, byId)
    IN IF i = 0 THEN q ELSE Splice1(q, i)

Intersects(e, area) == e.x < area.x + area.w /\ area.x < e.x + e.w

\* quadtree.get(area): the entries whose box intersects the area
Get(q, area) == SelectSeq(q, LAMBDA e : Intersects(e, area))

WorldArea == [x |-> 0, w |-> GameWidth]

\* ------------------------------------------------------------- initial state
NewTank == [x |-> 0, kills |-> 0, ammo |-> TankAmmoCapacity, bullets |-> <<>>]

Init ==
    /\ conn = [s \in Sessions |-> "none"]
    /\ screenName = [s \in Sessions |-> NoName]
    /\ player = [s \in Sessions |-> DefaultPlayer]
    /\ tank = [s \in Sessions |-> NewTank]
    /\ currentClientDatas = <<>>
    /\ sockets = [k \in SocketKeys |-> 0]
    /\ scoreboardList = <<>>
    /\ quadtree = <<>>
    /\ acked = [s \in Sessions |-> FALSE]
    /\ lastStep = NoStep
    /\ uncaught = "none"
    /\ sentName = [s \in Sessions |-> <<>>]

Running == uncaught = "none"

\* An exception escapes callback cb: the process exits, its memory is gone.
Exit(cb, step) ==
    /\ uncaught' = cb
    /\ lastStep' = step
    /\ conn' = [s \in DOMAIN conn |-> "none"]
    /\ screenName' = [s \in DOMAIN screenName |-> NoName]
    /\ player' = [s \in DOMAIN player |-> DefaultPlayer]
    /\ tank' = [s \in DOMAIN tank |-> NewTank]
    /\ currentClientDatas' = <<>>
    /\ sockets' = [k \in DOMAIN sockets |-> 0]
    /\ scoreboardList' = <<>>
    /\ quadtree' = <<>>
    /\ acked' = [s \in DOMAIN acked |-> FALSE]
    /\ sentName' = [s \in DOMAIN sentName |-> <<>>]

\* --------------------------------------------------- connection handlers
\* socketIo.on('connection'): a ClientData is built at a spawn location
OnConnection(s, spawn) ==
    /\ Running
    /\ conn[s] = "none"
    /\ conn' = [conn EXCEPT ![s] = "open"]
    /\ tank' = [tank EXCEPT ![s] = [NewTank EXCEPT !.x = spawn]]
    /\ lastStep' = NoStep
    /\ UNCHANGED <<screenName, player, currentClientDatas, sockets,
                   scoreboardList, quadtree, acked, uncaught, sentName>>

\* OnInit as it would be if the init handler already registered the session
\* and indexed its tank
OnInit_Registers(s, name) ==
    /\ Running
    /\ conn[s] = "open"
    /\ Len(currentClientDatas) < MaxRegistry
    /\ IF name.set
       THEN /\ screenName' = [screenName EXCEPT
                                ![s] = [set |-> TRUE,
                                        text |-> Substring0(name.text, NameLimit)]]
            /\ currentClientDatas' = Append(currentClientDatas, s)
            /\ quadtree' = Put(quadtree, [type |-> "tank", id |-> s,
                                          x |-> tank[s].x, w |-> 2])
            /\ lastStep' = NoStep
            /\ sentName' = [sentName EXCEPT ![s] = name.text]
            /\ UNCHANGED <<conn, player, tank, sockets, scoreboardList, acked,
                           uncaught>>
       ELSE Exit("init", NoStep)

\* socket.on('init'): name is [set, text]; a missing name makes substring throw
OnInit(s, name) ==
    /\ Running
    /\ conn[s] = "open"
    /\ IF name.set
       THEN /\ screenName' = [screenName EXCEPT
                                ![s] = [set |-> TRUE,
                                        text |-> Substring0(name.text, NameLimit)]]
            /\ sentName' = [sentName EXCEPT ![s] = name.text]
            /\ lastStep' = NoStep
            /\ UNCHANGED <<conn, player, tank, currentClientDatas, sockets,
                           scoreboardList, quadtree, acked, uncaught>>
       ELSE Exit("init", NoStep)

\* socket.on('welcome_received'): data is [present, id, player]; reading
\* .player of a missing payload throws
OnWelcomeReceived(s, data) ==
    /\ Running
    /\ conn[s] = "open"
    /\ Len(currentClientDatas) < MaxRegistry
    /\ IF data.present
       THEN /\ player' = [player EXCEPT ![s] = data.player]
            /\ currentClientDatas' = Append(currentClientDatas, s)
            /\ sockets' = [sockets EXCEPT ![data.id] = s]
            /\ quadtree' = Put(quadtree, TankItem(s))
            /\ acked' = [acked EXCEPT ![s] = TRUE]
            /\ lastStep' = NoStep
            /\ UNCHANGED <<conn, screenName, tank, scoreboardList, uncaught, sentName>>
       ELSE Exit("welcome_received", NoStep)

\* the bullets loop of the disconnect handler (lines 144-146)
RECURSIVE RemoveBullets(_, _, _)
RemoveBullets(q, s, bullets) ==
    IF bullets = <<>> THEN q
    ELSE RemoveBullets(Remove(q, BulletItem(s, Head(bullets)), FALSE), s,
                       Tail(bullets))

\* socket.on('disconnect'); line 157 reads player.screenName and throws when
\* the session is registered with an undefined player
OnDisconnect(s) ==
    /\ Running
    /\ conn[s] = "open"
    /\ LET playerIndex == FindIndex(currentClientDatas, s)
       IN IF playerIndex > 0 /\ ~player[s].defined
          THEN Exit("disconnect", NoStep)
          ELSE /\ conn' = [conn EXCEPT ![s] = "closed"]
               /\ quadtree' = Remove(RemoveBullets(quadtree, s, tank[s].bullets),
                                     TankItem(s), TRUE)
               /\ currentClientDatas' =
                      IF playerIndex > 0
                      THEN Splice1(currentClientDatas, playerIndex)
                      ELSE currentClientDatas
               /\ lastStep' = NoStep
               /\ UNCHANGED <<screenName, player, tank, sockets, scoreboardList,
                              acked, uncaught, sentName>>

\* socket.on('client_checkin'): the input only feeds the rule engine, whose
\* outcome is drawn freely, so its value is not kept; an undefined player throws
OnClientCheckin(s, input) ==
    /\ Running
    /\ conn[s] = "open"
    /\ IF player[s].defined
       THEN /\ lastStep' = NoStep
            /\ UNCHANGED <<conn, screenName, player, tank, currentClientDatas,
                           sockets, scoreboardList, quadtree, acked, uncaught, sentName>>
       ELSE Exit("client_checkin", NoStep)

\* socket.on('windowResized'): data is [present, screenWidth, screenHeight]
OnWindowResized(s, data) ==
    /\ Running
    /\ conn[s] = "open"
    /\ IF player[s].defined /\ data.present
       THEN /\ player' = [player EXCEPT ![s].screenWidth = data.screenWidth,
                                        ![s].screenHeight = data.screenHeight]
            /\ lastStep' = NoStep
            /\ UNCHANGED <<conn, screenName, tank, currentClientDatas, sockets,
                           scoreboardList, quadtree, acked, uncaught, sentName>>
       ELSE Exit("windowResized", NoStep)

\* ------------------------------------------------------------ rule engine
\* What one gameLogicService.gameTick call may do to the session it advances.
\* Its outcomes: "idle", "move", "fire", "hit" (a bullet of the session ends in
\* a kill) and "fail" (the call throws).
\* the world as a driver's loop threads it from one iteration to the next
World == [tank |-> tank, quadtree |-> quadtree, advanced |-> <<>>, failedAt |-> 0]

\* Tank item of session s at the position held in world w
TankItemIn(w, s) == [type |-> "tank", id |-> s, x |-> w.tank[s].x, w |-> 2]

\* the tank's entry is taken out by identity and put back at its new box
Reindex(w, s, tk) ==
    LET q0 == Remove(w.quadtree, TankItemIn(w, s), TRUE)
    IN [w EXCEPT !.tank[s] = tk,
                 !.quadtree = Put(q0, [type |-> "tank", id |-> s, x |-> tk.x, w |-> 2])]

\* position of the first entry that is bullet b of tank s, 0 when none
BulletEntry(q, s, bx) ==
    LET hit(e) == e.type = "bullet" /\ e.id = s /\ e.x = bx
    IN IF \E i \in 1..Len(q) : hit(q[i])
       THEN CHOOSE i \in 1..Len(q) : hit(q[i]) /\ \A j \in 1..(i - 1) : ~hit(q[j])
       ELSE 0

\* gameLogicService.gameTick(clientData, socket, currentClientDatas) for
\* session s with the given outcome (any outcome but "fail")
Advance(w, s, outcome) ==
    LET tk == w.tank[s]
        w1 == Reindex(w, s, IF outcome = "move"
                            THEN [tk EXCEPT !.x = (tk.x + 1) % GameWidth]
                            ELSE tk)
        t1 == w1.tank[s]
    IN CASE outcome = "fire" /\ t1.ammo > 0 ->
              [w1 EXCEPT !.tank[s].ammo = t1.ammo - 1,
                         !.tank[s].bullets = Append(t1.bullets, t1.x),
                         !.quadtree = Put(w1.quadtree, BulletItem(s, t1.x))]
         [] outcome = "hit" /\ t1.bullets # <<>> ->
              LET i == BulletEntry(w1.quadtree, s, Head(t1.bullets))
              IN [w1 EXCEPT !.tank[s].ammo = t1.ammo + 1,
                            !.tank[s].bullets = Tail(t1.bullets),
                            !.tank[s].kills = Min(t1.kills + 1, MaxKills),
                            !.quadtree = IF i = 0 THEN w1.quadtree
                                         ELSE Splice1(w1.quadtree, i)]
         [] OTHER -> w1

\* the outcomes the rule engine can produce for session s in world w
Applicable(w, s) ==
    {"idle", "fail"}
        \cup (IF GameWidth > 1 THEN {"move"} ELSE {})
        \cup (IF w.tank[s].ammo > 0 THEN {"fire"} ELSE {})
        \cup (IF w.tank[s].bullets # <<>> THEN {"hit"} ELSE {})

\* var gameTick = function(clientData): a failing advance throws
GameTick(w, i, s, outcome) ==
    IF outcome = "fail"
    THEN [w EXCEPT !.failedAt = i]
    ELSE [Advance(w, s, outcome) EXCEPT !.advanced = Append(w.advanced, s)]

\* for (var i = currentClientDatas.length - 1; i >= 0; --i) gameTick(...):
\* the worlds the loop can end in, from position i (1-based) downwards
RECURSIVE AdvanceLoop(_, _)
AdvanceLoop(w, i) ==
    IF i = 0 \/ w.failedAt # 0 THEN {w}
    ELSE UNION {AdvanceLoop(GameTick(w, i, currentClientDatas[i], o), i - 1) :
                    o \in Applicable(w, currentClientDatas[i])}

\* --------------------------------------------------------------- drivers
\* the driver with a failing advance call swallowed: the sessions advanced
\* before it keep their new state and the process goes on
GameObjectUpdater_KeepsPartial ==
    /\ Running
    /\ \E w \in AdvanceLoop(World, Len(currentClientDatas)) :
         /\ tank' = w.tank
         /\ quadtree' = w.quadtree
         /\ lastStep' = [NoStep EXCEPT !.op = "gameObjectUpdater",
                                       !.registry = currentClientDatas,
                                       !.advanced = w.advanced,
                                       !.failedAt = w.failedAt]
         /\ UNCHANGED <<conn, screenName, player, currentClientDatas,
                        sockets, scoreboardList, acked, uncaught, sentName>>

\* setInterval(gameObjectUpdater, 1000/60)
GameObjectUpdater ==
    /\ Running
    /\ \E w \in AdvanceLoop(World, Len(currentClientDatas)) :
         LET step == [NoStep EXCEPT !.op = "gameObjectUpdater",
                                    !.registry = currentClientDatas,
                                    !.advanced = w.advanced,
                                    !.failedAt = w.failedAt]
         IN IF w.failedAt # 0
            THEN Exit("gameObjectUpdater", step)
            ELSE /\ tank' = w.tank
                 /\ quadtree' = w.quadtree
                 /\ lastStep' = step
                 /\ UNCHANGED <<conn, screenName, player, currentClientDatas,
                                sockets, scoreboardList, acked, uncaught, sentName>>

\* ----- broadcast
\* An object is a sequence of fields [key, val], in property order.
HasKey(obj, k) == \E i \in 1..Len(obj) : obj[i].key = k

\* one property assignment: an existing key keeps its place
SetField(obj, f) ==
    IF HasKey(obj, f.key)
    THEN [i \in 1..Len(obj) |-> IF obj[i].key = f.key THEN f ELSE obj[i]]
    ELSE Append(obj, f)

RECURSIVE MergeInto(_, _)
MergeInto(obj, src) ==
    IF src = <<>> THEN obj ELSE MergeInto(SetField(obj, Head(src)), Tail(src))

\* Object.assign(target, ...sources), sources a sequence of objects
RECURSIVE ObjectAssign(_, _)
ObjectAssign(target, sources) ==
    IF sources = <<>> THEN target
    ELSE ObjectAssign(MergeInto(target, Head(sources)), Tail(sources))

Keys(obj) == [i \in 1..Len(obj) |-> obj[i].key]

FieldName(type) == IF type = "tank" THEN "tanks" ELSE "bullets"

\* quadtreeManager.queryGameObjects(queryArea): the visible entries grouped
\* by kind, one field per kind that has a visible entry
RECURSIVE GroupByKind(_, _)
GroupByKind(obj, entries) ==
    IF entries = <<>> THEN obj
    ELSE LET e == Head(entries)
             k == FieldName(e.type)
             old == IF HasKey(obj, k)
                    THEN (CHOOSE f \in Range(obj) : f.key = k).val ELSE <<>>
         IN GroupByKind(SetField(obj, [key |-> k, val |-> Append(old, e)]),
                        Tail(entries))

QueryGameObjects(area) == GroupByKind(<<>>, Get(quadtree, area))

\* the queryArea of lines 228-233, for session s
QueryArea(s) ==
    [x |-> tank[s].x - (player[s].screenWidth \div 2), w |-> player[s].screenWidth]

\* the sources with the ammo object passed before the visible objects
SnapshotParts_AmmoFirst(s) ==
    << <<[key |-> "perspective", val |-> [x |-> tank[s].x]]>>,
       <<[key |-> "ammo",
          val |-> [capacity |-> TankAmmoCapacity, count |-> tank[s].ammo]]>>,
       GroupByKind(<<>>, Get(quadtree, [x |-> tank[s].x - (player[s].screenWidth \div 2),
                                        w |-> player[s].screenWidth])),
       <<[key |-> "scoreboard", val |-> scoreboardList]>> >>

\* the sources with the scoreboard read off the registered tanks at the
\* time of the broadcast instead of the cached list
SnapshotParts_LiveScoreboard(s) ==
    << <<[key |-> "perspective", val |-> [x |-> tank[s].x]]>>,
       QueryGameObjects(QueryArea(s)),
       <<[key |-> "ammo",
          val |-> [capacity |-> TankAmmoCapacity, count |-> tank[s].ammo]]>>,
       <<[key |-> "scoreboard",
          val |-> [i \in 1..Len(currentClientDatas) |->
                     [screenName |-> screenName[currentClientDatas[i]].text,
                      kills |-> tank[currentClientDatas[i]].kills]]]>> >>

\* the sources of the Object.assign call of lines 260-266, in argument order
SnapshotParts(s) ==
    << <<[key |-> "perspective", val |-> [x |-> tank[s].x]]>>,
       QueryGameObjects(QueryArea(s)),
       <<[key |-> "ammo",
          val |-> [capacity |-> TankAmmoCapacity, count |-> tank[s].ammo]]>>,
       <<[key |-> "scoreboard", val |-> scoreboardList]>> >>

Snapshot(s) == ObjectAssign(<<>>, SnapshotParts(s))

\* the forEach body throws on an undefined player (line 229) or on a
\* missing sockets entry (line 259)
CanEmit(s) == player[s].defined /\ sockets[s] # 0

\* currentClientDatas.forEach(...): the messages emitted, until one throws
RECURSIVE EmitLoop(_, _)
EmitLoop(i, out) ==
    IF i > Len(currentClientDatas) THEN [emitted |-> out, failedAt |-> 0]
    ELSE LET s == currentClientDatas[i]
         IN IF CanEmit(s)
            THEN EmitLoop(i + 1, Append(out, [to |-> sockets[s], session |-> s,
                                             msg |-> Snapshot(s)]))
            ELSE [emitted |-> out, failedAt |-> i]

\* setInterval(clientUpdater, 1000/40)
ClientUpdater ==
    /\ Running
    /\ LET r == EmitLoop(1, <<>>)
           step == [NoStep EXCEPT !.op = "clientUpdater",
                                  !.registry = currentClientDatas,
                                  !.emitted = r.emitted,
                                  !.failedAt = r.failedAt]
       IN IF r.failedAt # 0
          THEN Exit("clientUpdater", step)
          ELSE /\ lastStep' = step
               /\ UNCHANGED <<conn, screenName, player, tank, currentClientDatas,
                              sockets, scoreboardList, quadtree, acked, uncaught, sentName>>

\* ----- scoreboard
\* the comparator with its operands swapped
ScoreCmp_Swapped(t1, t2) == tank[t2].kills - tank[t1].kills

\* the comparator of lines 274-275
ScoreCmp(t1, t2) == tank[t1].kills - tank[t2].kills

\* Math.min(currentClientDatas.length, config.scoreBoardLength)
ScoreK == Min(Len(currentClientDatas), ScoreBoardLength)

\* heap.js _siftdown(array, startpos, pos, cmp); positions are 0-based
RECURSIVE SiftDownLoop(_, _, _, _)
SiftDownLoop(a, startpos, pos, newitem) ==
    IF pos > startpos
    THEN LET parentpos == (pos - 1) \div 2
             parent == a[parentpos + 1]
         IN IF ScoreCmp(newitem, parent) < 0
            THEN SiftDownLoop([a EXCEPT ![pos + 1] = parent], startpos,
                              parentpos, newitem)
            ELSE [a EXCEPT ![pos + 1] = newitem]
    ELSE [a EXCEPT ![pos + 1] = newitem]

SiftDown(a, startpos, pos) == SiftDownLoop(a, startpos, pos, a[pos + 1])

\* heap.js _siftup(array, pos, cmp)
RECURSIVE SiftUpLoop(_, _, _, _)
SiftUpLoop(a, startpos, pos, newitem) ==
    LET endpos == Len(a)
        leftpos == 2 * pos + 1
        rightpos == leftpos + 1
        childpos == IF rightpos < endpos
                       /\ ~(ScoreCmp(a[leftpos + 1], a[rightpos + 1]) < 0)
                    THEN rightpos ELSE leftpos
    IN IF leftpos < endpos
       THEN SiftUpLoop([a EXCEPT ![pos + 1] = a[childpos + 1]], startpos,
                       childpos, newitem)
       ELSE SiftDown([a EXCEPT ![pos + 1] = newitem], startpos, pos)

SiftUp(a, pos) == SiftUpLoop(a, pos, pos, a[pos + 1])

\* heap.js heapify(array, cmp): _siftup from floor(n/2)-1 down to 0
RECURSIVE HeapifyFrom(_, _)
HeapifyFrom(a, i) == IF i < 0 THEN a ELSE HeapifyFrom(SiftUp(a, i), i - 1)

Heapify(a) == HeapifyFrom(a, (Len(a) \div 2) - 1)

\* heap.js heappushpop(array, item, cmp): the heap after the call
HeapPushPop(a, item) ==
    IF Len(a) > 0 /\ ScoreCmp(a[1], item) < 0
    THEN SiftUp([a EXCEPT ![1] = item], 0)
    ELSE a

RECURSIVE PushPopAll(_, _)
PushPopAll(a, rest) ==
    IF rest = <<>> THEN a ELSE PushPopAll(HeapPushPop(a, Head(rest)), Tail(rest))

\* Array.prototype.sort(cmp), stable: each element is inserted after the
\* elements that do not compare greater
RECURSIVE InsertSorted(_, _)
InsertSorted(sorted, e) ==
    IF sorted = <<>> THEN <<e>>
    ELSE IF ScoreCmp(sorted[Len(sorted)], e) > 0
         THEN Append(InsertSorted(SubSeq(sorted, 1, Len(sorted) - 1), e),
                     sorted[Len(sorted)])
         ELSE Append(sorted, e)

RECURSIVE SortFrom(_, _)
SortFrom(sorted, rest) ==
    IF rest = <<>> THEN sorted
    ELSE SortFrom(InsertSorted(sorted, Head(rest)), Tail(rest))

Sort(a) == SortFrom(<<>>, a)

Reverse(a) == [i \in 1..Len(a) |-> a[Len(a) + 1 - i]]

\* Heap.nlargest(array, n, cmp)
NLargest(array, n) ==
    LET result == SubSeq(array, 1, Min(n, Len(array)))
    IN IF result = <<>> THEN result
       ELSE Reverse(Sort(PushPopAll(Heapify(result),
                                    SubSeq(array, n + 1, Len(array)))))

\* the entry of line 276
ScoreEntry(s) == [screenName |-> screenName[s].text, kills |-> tank[s].kills]

\* setInterval(updateScoreboard, 500)
UpdateScoreboard ==
    /\ Running
    /\ LET top == NLargest(currentClientDatas, ScoreK)
       IN scoreboardList' = [i \in 1..Len(top) |-> ScoreEntry(top[i])]
    /\ lastStep' = NoStep
    /\ UNCHANGED <<conn, screenName, player, tank, currentClientDatas, sockets,
                   quadtree, acked, uncaught, sentName>>

\* ----------------------------------------------------------- client inputs
NameInputs == {NoName, [set |-> TRUE, text |-> LongName]}

\* the id a client echoes back is its own, or is missing (key "undefined")
AckInputs(s) ==
    {[present |-> FALSE, id |-> 0, player |-> NoPlayer]} \cup
    {[present |-> TRUE, id |-> k, player |-> p] :
        k \in {s, 0}, p \in {NoPlayer, DefaultPlayer}}

ResizeInputs ==
    {[present |-> FALSE, screenWidth |-> 0, screenHeight |-> 0],
     [present |-> TRUE, screenWidth |-> 2, screenHeight |-> 2]}

CheckinInputs == {0, 1}

Next ==
    \/ \E s \in Sessions, spawn \in Cells : OnConnection(s, spawn)
    \/ \E s \in Sessions, name \in NameInputs : OnInit(s, name)
    \/ \E s \in Sessions : \E data \in AckInputs(s) : OnWelcomeReceived(s, data)
    \/ \E s \in Sessions : OnDisconnect(s)
    \/ \E s \in Sessions, input \in CheckinInputs : OnClientCheckin(s, input)
    \/ \E s \in Sessions, data \in ResizeInputs : OnWindowResized(s, data)
    \/ GameObjectUpdater
    \/ ClientUpdater
    \/ UpdateScoreboard

Spec == Init /\ [][Next]_vars

\* the three setInterval timers keep firing for as long as the process runs
SpecFair ==
    /\ Init /\ [][Next]_vars
    /\ WF_vars(GameObjectUpdater)
    /\ WF_vars(ClientUpdater)
    /\ WF_vars(UpdateScoreboard)

\* ------------------------------------------- scoreboard on drawn registries
\* updateScoreboard applied to a registry of up to ScoreTanks active sessions
\* in any order, each tank with any kill count up to ScoreMaxKills.
ScoreIds == 1..ScoreTanks

InjectiveSeqs(S) ==
    {q \in UNION {[1..n -> S] : n \in 0..Cardinality(S)} :
        \A i, j \in 1..Len(q) : i # j => q[i] # q[j]}

ScoreInit ==
    /\ currentClientDatas \in InjectiveSeqs(ScoreIds)
    /\ \E kills \in [ScoreIds -> 0..ScoreMaxKills] :
         /\ \A s \in ScoreIds \ Range(currentClientDatas) : kills[s] = 0
         /\ tank = [s \in ScoreIds |-> [NewTank EXCEPT !.kills = kills[s]]]
    /\ conn = [s \in ScoreIds |->
                 IF s \in Range(currentClientDatas) THEN "open" ELSE "none"]
    /\ screenName = [s \in ScoreIds |->
                       IF s \in Range(currentClientDatas)
                       THEN [set |-> TRUE, text |-> <<s>>] ELSE NoName]
    /\ player = [s \in ScoreIds |-> DefaultPlayer]
    /\ sockets = [k \in 0..ScoreTanks |->
                    IF k \in Range(currentClientDatas) THEN k ELSE 0]
    /\ scoreboardList = <<>>
    /\ quadtree = [i \in 1..Len(currentClientDatas) |->
                     [type |-> "tank", id |-> currentClientDatas[i], x |-> 0,
                      w |-> 2]]
    /\ acked = [s \in ScoreIds |-> s \in Range(currentClientDatas)]
    /\ lastStep = NoStep
    /\ uncaught = "none"
    /\ sentName = [s \in ScoreIds |-> <<s>>]

ScoreNext == UpdateScoreboard

SpecScore == ScoreInit /\ [][ScoreNext]_vars

\* ------------------------------------------------ init on drawn names
\* the init handler applied to names of every length up to MaxNameLen, each
\* written from NameChars starting characters
NameTexts ==
    {[i \in 1..n |-> (i + c) % NameChars] : n \in 0..MaxNameLen,
                                           c \in 0..(NameChars - 1)}

NameNext ==
    \/ \E s \in Sessions, spawn \in Cells : OnConnection(s, spawn)
    \/ \E s \in Sessions, n \in NameTexts : OnInit(s, [set |-> TRUE, text |-> n])

SpecName == Init /\ [][NameNext]_vars

\* ------------------------------- world-advance with disconnecting advances
\* The world-advance driver when an advance call may end with the disconnect
\* of one session (the rule engine is handed the socket and the registry).
\* The loop threads the live registry: w.registry is currentClientDatas as
\* the iteration finds it, w.closed the sessions disconnected so far.
RemovalWorld ==
    [tank |-> tank, quadtree |-> quadtree, advanced |-> <<>>, failedAt |-> 0,
     registry |-> currentClientDatas, closed |-> {}]

\* the disconnect handler of session r (lines 144-158) run inside the loop
DisconnectIn(w, r) ==
    LET playerIndex == FindIndex(w.registry, r)
    IN [w EXCEPT !.quadtree = Remove(RemoveBullets(w.quadtree, r, w.tank[r].bullets),
                                      TankItemIn(w, r), TRUE),
                 !.registry = IF playerIndex > 0
                              THEN Splice1(w.registry, playerIndex)
                              ELSE w.registry,
                 !.closed = w.closed \cup {r}]

\* one iteration of the loop of lines 214-216 at slot i: reading a slot past
\* the end yields undefined and the call throws; r is the session the call
\* disconnects, 0 for none
TickAt(w, i, r) ==
    IF i > Len(w.registry)
    THEN [w EXCEPT !.failedAt = i]
    ELSE LET w1 == [w EXCEPT !.advanced = Append(w.advanced, w.registry[i])]
         IN IF r = 0 THEN w1 ELSE DisconnectIn(w1, r)

RECURSIVE RemovalLoop(_, _)
RemovalLoop(w, i) ==
    IF i = 0 \/ w.failedAt # 0 THEN {w}
    ELSE UNION {RemovalLoop(TickAt(w, i, r), i - 1) :
                    r \in {0} \cup Range(w.registry)}

GameObjectUpdaterRemoving ==
    /\ Running
    /\ \E w \in RemovalLoop(RemovalWorld, Len(currentClientDatas)) :
         LET step == [NoStep EXCEPT !.op = "gameObjectUpdater",
                                    !.registry = currentClientDatas,
                                    !.advanced = w.advanced,
                                    !.failedAt = w.failedAt]
         IN IF w.failedAt # 0
            THEN Exit("gameObjectUpdater", step)
            ELSE /\ quadtree' = w.quadtree
                 /\ currentClientDatas' = w.registry
                 /\ conn' = [s \in DOMAIN conn |->
                               IF s \in w.closed THEN "closed" ELSE conn[s]]
                 /\ lastStep' = step
                 /\ UNCHANGED <<screenName, player, tank, sockets,
                                scoreboardList, acked, uncaught, sentName>>

RemovalNext == GameObjectUpdaterRemoving

SpecRemoval == ScoreInit /\ [][RemovalNext]_vars

\* ================================================================ claims
InRegistry(s) == s \in Range(currentClientDatas)

\* the whole-world query of line 160
WorldQuery == Get(quadtree, WorldArea)

\* the entries of the whole-world query that reference session s's tank or
\* one of its bullets
EntriesOf(s) == SelectSeq(WorldQuery, LAMBDA e : e.id = s)

TankEntriesOf(s) == SelectSeq(WorldQuery, LAMBDA e : e.type = "tank" /\ e.id = s)

\* C1 (disconnect atomicity): once the disconnect handler of a session has
\* run, the whole-world query returns no entry referencing its tank or any of
\* its bullets.
C1_DisconnectAtomicity ==
    \A s \in DOMAIN conn : conn[s] = "closed" => EntriesOf(s) = <<>>

\* C2 (index consistency): the entities returned by the whole-world query are
\* exactly the tanks of the registered sessions and the bullets of those tanks.
LiveEntities ==
    {TankItem(s) : s \in Range(currentClientDatas)} \cup
    UNION {{BulletItem(s, tank[s].bullets[i]) : i \in 1..Len(tank[s].bullets)} :
              s \in Range(currentClientDatas)}

C2_IndexConsistency == Range(WorldQuery) = LiveEntities

\* C3 (pre-handshake isolation): a session whose welcome_received handler
\* never ran is in no state in the registry and has no quadtree entry, before
\* and after its disconnect.
C3_PreHandshakeIsolation ==
    \A s \in DOMAIN conn :
        ~acked[s] => ~InRegistry(s) /\ \A i \in 1..Len(quadtree) : quadtree[i].id # s

\* a session disconnected after init and without ever acknowledging, while
\* another session is registered and indexed
C3_Witness ==
    \E s, o \in DOMAIN conn :
        /\ s # o
        /\ conn[s] = "closed" /\ screenName[s].set /\ ~acked[s]
        /\ InRegistry(o) /\ EntriesOf(o) # <<>>
        /\ lastStep.op = "gameObjectUpdater"

\* C4 (cancellation on teardown): after the disconnect handler of a session
\* has run the session is not in the registry, and no driver run advances it
\* or emits a snapshot for it.
C4_CancellationOnTeardown ==
    \A s \in DOMAIN conn :
        conn[s] = "closed" =>
            /\ ~InRegistry(s)
            /\ s \notin Range(lastStep.advanced)
            /\ \A i \in 1..Len(lastStep.emitted) : lastStep.emitted[i].session # s

\* C5 (handshake ordering): a session is in the registry only after its init
\* message was handled.
C5_HandshakeOrdering ==
    \A s \in DOMAIN conn : InRegistry(s) => screenName[s].set

\* C6 (duplicate handshake): a session appears at most once in the registry
\* and, while registered, its tank has exactly one quadtree entry.
C6_DuplicateHandshake ==
    \A s \in DOMAIN conn :
        /\ Len(SelectSeq(currentClientDatas, LAMBDA r : r = s)) <= 1
        /\ InRegistry(s) => Len(TankEntriesOf(s)) = 1

\* C7 (malformed messages are absorbed): no message handler fails, and no
\* broadcast or disconnect fails on what a message left behind; the only
\* callback that may fail is the world-advance driver, on a rule-engine failure.
C7_MalformedAbsorbed == uncaught \in {"none", "gameObjectUpdater"}

\* C8 (rule-engine failure isolation): when the advance call fails for one
\* session in a world-advance tick, every other session of the registry is
\* advanced in that tick.
C8_FailureIsolation ==
    (lastStep.op = "gameObjectUpdater" /\ lastStep.failedAt # 0) =>
        \A s \in Range(lastStep.registry) :
            s # lastStep.registry[lastStep.failedAt] =>
                s \in Range(lastStep.advanced)

\* ----- C9
KillsOf(list) == [i \in 1..Len(list) |-> list[i].kills]

RegistryKills == [i \in 1..Len(currentClientDatas) |-> tank[currentClientDatas[i]].kills]

Count(seq, v) == Cardinality({i \in 1..Len(seq) : seq[i] = v})

CountAbove(seq, v) == Cardinality({i \in 1..Len(seq) : seq[i] > v})

\* out holds the k largest values of in, in descending order
IsTopDescending(out, in, k) ==
    /\ Len(out) = k
    /\ \A i \in 1..(Len(out) - 1) : out[i] >= out[i + 1]
    /\ \A v \in Range(in) \cup Range(out) :
          LET room == k - CountAbove(in, v)
          IN Count(out, v) = Min(Count(in, v), IF room > 0 THEN room ELSE 0)

ScoreboardIsTop ==
    IsTopDescending(KillsOf(scoreboardList), RegistryKills,
                    Min(Len(currentClientDatas), ScoreBoardLength))

\* C9 (scoreboard correctness): every run of updateScoreboard stores
\* min(session count, ScoreBoardLength) entries whose kill counts are the
\* largest kill counts of the registered tanks, in descending order.
C9_ScoreboardCorrect == [][ScoreboardIsTop']_vars

\* a stored scoreboard that cut the registry off, from a registry whose kill
\* counts were not already in descending order
C9_Witness ==
    /\ Len(scoreboardList) = ScoreBoardLength
    /\ Len(currentClientDatas) > ScoreBoardLength
    /\ \E i \in 1..(Len(RegistryKills) - 1) : RegistryKills[i] < RegistryKills[i + 1]
    /\ scoreboardList[1].kills > scoreboardList[ScoreBoardLength].kills

\* ----- C10
OrderedKeys(ks) ==
    /\ Len(ks) >= 3
    /\ ks[1] = "perspective"
    /\ ks[Len(ks) - 1] = "ammo"
    /\ ks[Len(ks)] = "scoreboard"
    /\ \A i \in 2..(Len(ks) - 2) : ks[i] \notin {"perspective", "ammo", "scoreboard"}

EmittedFor(s) == SelectSeq(lastStep.emitted, LAMBDA m : m.session = s)

\* session s completed the handshake and has not disconnected
Active(s) == acked[s] /\ conn[s] = "open"

\* C11 (one snapshot per session per broadcast tick): a broadcast tick that
\* runs to its end emits exactly one snapshot for each session that completed
\* the handshake and has not disconnected, and none for any other session.
C11_OneSnapshotPerTick ==
    (lastStep.op = "clientUpdater" /\ lastStep.failedAt = 0) =>
        \A s \in DOMAIN conn :
            Len(EmittedFor(s)) = (IF Active(s) THEN 1 ELSE 0)

\* ----- C12
\* C12 (multi-rate independence): every callback starts in a running process,
\* and a world-advance tick that advanced only some of the registered
\* sessions ends the process; so no broadcast tick reads a world in which a
\* world-advance tick advanced some sessions and not the others.
C12_NoHalfAppliedAdvance ==
    [][/\ Running
       /\ (lastStep'.op = "gameObjectUpdater"
             /\ lastStep'.advanced # Reverse(lastStep'.registry))
            => ~Running']_vars

\* a broadcast tick for two sessions that reads the bullet a complete
\* world-advance tick put into the world
C12_Witness ==
    /\ lastStep.op = "clientUpdater"
    /\ Len(lastStep.emitted) = 2
    /\ lastStep.emitted[1].session # lastStep.emitted[2].session
    /\ \E i \in 1..Len(quadtree) : quadtree[i].type = "bullet"

\* ----- C13
\* C13 (name truncation): the stored screen name of a session is the first
\* min(NameLimit, length) characters of the name its last init message
\* carried; a name of at most NameLimit characters is stored unchanged.
C13_NameTruncation ==
    \A s \in DOMAIN conn :
        screenName[s].set =>
            LET n == sentName[s]
                k == IF Len(n) < NameLimit THEN Len(n) ELSE NameLimit
            IN /\ Len(screenName[s].text) = k
               /\ \A i \in 1..k : screenName[s].text[i] = n[i]
               /\ Len(n) <= NameLimit => screenName[s].text = n

\* one session sent the longest name and has its first NameLimit characters
\* stored, another sent a shorter non-empty name and has it stored whole
C13_Witness ==
    \E s, o \in DOMAIN conn :
        /\ screenName[s].set /\ Len(sentName[s]) = MaxNameLen
        /\ Len(screenName[s].text) = NameLimit
        /\ screenName[o].set /\ Len(sentName[o]) \in 1..NameLimit
        /\ screenName[o].text = sentName[o]

\* ----- C14
\* place of registry slot i when the registry is ordered by kill count,
\* highest first, slots of equal kill count kept in registry order
StableRank(i) ==
    1 + Cardinality({j \in 1..Len(RegistryKills) :
                        \/ RegistryKills[j] > RegistryKills[i]
                        \/ RegistryKills[j] = RegistryKills[i] /\ j < i})

ScoreboardIsStable ==
    /\ Len(scoreboardList) = Min(Len(currentClientDatas), ScoreBoardLength)
    /\ \A i \in 1..Len(currentClientDatas) :
          StableRank(i) <= Len(scoreboardList) =>
              scoreboardList[StableRank(i)] = ScoreEntry(currentClientDatas[i])

\* C14 (scoreboard tie stability): every run of updateScoreboard lists the
\* tanks of equal kill count, and chooses among them at the cut-off, in their
\* order in the registry.
C14_TieStability == [][ScoreboardIsStable']_vars

\* ----- C15
\* C15 (removal tolerance of the world-advance loop): in a world-advance tick
\* during which an advance call removed a session from the registry, no
\* session is advanced more than once, every session still registered at the
\* end of the tick is advanced exactly once, and no slot past the end of the
\* registry is read.
C15_RemovalTolerance ==
    (lastStep.op = "gameObjectUpdater"
        /\ Len(currentClientDatas) < Len(lastStep.registry)) =>
        /\ lastStep.failedAt = 0
        /\ \A s \in Range(lastStep.advanced) : Count(lastStep.advanced, s) = 1
        /\ \A s \in Range(currentClientDatas) : Count(lastStep.advanced, s) = 1

\* ----- C16
\* the quadtree entries of session o's tank and bullets, in traversal order
OwnEntries(q, o) == SelectSeq(q, LAMBDA e : e.id = o)

\* the registry without the slots of session s
OtherSlots(reg, s) == SelectSeq(reg, LAMBDA r : r # s)

\* C16 (disconnect removes only what the session owns): the disconnect of a
\* session leaves the quadtree entries and the registry slots of every other
\* session as they were, and leaves the quadtree and the registry unchanged
\* when the session never completed the handshake.
C16_DisconnectOwnOnly ==
    [][\A s \in DOMAIN conn :
          (conn[s] = "open" /\ conn'[s] = "closed") =>
              /\ \A o \in DOMAIN conn \ {s} :
                    OwnEntries(quadtree', o) = OwnEntries(quadtree, o)
              /\ OtherSlots(currentClientDatas', s) = OtherSlots(currentClientDatas, s)
              /\ ~acked[s] => /\ quadtree' = quadtree
                              /\ currentClientDatas' = currentClientDatas]_vars

\* ----- C17
FieldOf(msg, k) == (CHOOSE f \in Range(msg) : f.key = k).val

\* what a scoreboard refresh computes in the current state
Refreshed ==
    LET top == NLargest(currentClientDatas, ScoreK)
    IN [i \in 1..Len(top) |-> ScoreEntry(top[i])]

\* C17 (cached scoreboard is a value snapshot): every snapshot a broadcast
\* tick emits carries the cached scoreboard, and the cached scoreboard
\* changes only by a refresh, to the value the refresh computes (it is gone
\* with the process when a callback fails); no handler and no other driver
\* alters it.
C17_CachedScoreboard ==
    [][/\ \A i \in 1..Len(lastStep'.emitted) :
             FieldOf(lastStep'.emitted[i].msg, "scoreboard") = scoreboardList
       /\ scoreboardList' # scoreboardList =>
             \/ scoreboardList' = Refreshed /\ UNCHANGED <<tank, currentClientDatas>>
             \/ ~Running']_vars

\* a snapshot whose scoreboard is not empty and is no longer what a refresh
\* would compute, the kill counts having changed since the last refresh
C17_Witness ==
    /\ lastStep.op = "clientUpdater"
    /\ \E i \in 1..Len(lastStep.emitted) :
          LET sb == FieldOf(lastStep.emitted[i].msg, "scoreboard")
          IN /\ sb # <<>>
             /\ sb = scoreboardList
             /\ Len(sb) = Len(Refreshed)
             /\ KillsOf(sb) # KillsOf(Refreshed)

\* ----- C18
\* C18 (transport handle availability): for every session in the registry
\* the sockets object holds that session's own socket under the session's
\* id, whatever id the client sent with welcome_received.
C18_HandleAvailable ==
    \A s \in Range(currentClientDatas) : sockets[s] = s

\* ----- C19
\* C19 (transport handle teardown): the sockets object has no entry for a
\* disconnected session, and every session id that is a key of the sockets
\* object is the id of a session in the registry (that every registered id
\* is a key is C18).
C19_HandleTeardown ==
    /\ \A s \in DOMAIN conn : conn[s] = "closed" => sockets[s] = 0
    /\ {k \in DOMAIN conn : sockets[k] # 0} \subseteq Range(currentClientDatas)

\* ----- C20
AdvancedNow(s) == lastStep.op = "gameObjectUpdater" /\ s \in Range(lastStep.advanced)

SentNow(s) == lastStep.op = "clientUpdater" /\ EmittedFor(s) # <<>>

\* C20 (progress of an active session): with the three timers firing fairly,
\* a session that completes the handshake and never disconnects is advanced
\* by a world-advance tick and sent a snapshot by a broadcast tick again and
\* again, whatever the other sessions do.
C20_ActiveProgress ==
    \A s \in Sessions :
        (<>acked[s] /\ [](conn[s] # "closed")) =>
            ([]<>AdvancedNow(s) /\ []<>SentNow(s))

====
